---- MODULE Spec2Model ----
(***************************************************************************)
(* Model of the WebAssembly binding of the Rime input method engine        *)
(* (src/wasm/binding/rime_wasm.cpp).                                       *)
(*                                                                         *)
(* The binding keeps six process-wide variables (api, session, commit,     *)
(* context, json_buf, engine_started) and exports eight C functions.  The  *)
(* engine behind RimeApi is not part of the binding: it is modelled as an  *)
(* environment that answers every call nondeterministically, and whose     *)
(* only own state is the set of live sessions and whether it is            *)
(* initialized.  Every call the binding makes during one exported          *)
(* operation is recorded, with its result, in the history variable calls.  *)
(***************************************************************************)
EXTENDS Integers, Sequences, FiniteSets, TLC

----------------------------------------------------------------------------
(* Bounds of the model *)

\* session ids the engine can hand out are 1..NumHandles
NumHandles == 2
\* longest preedit string the engine reports
MaxLen == 2
\* largest number of candidates on a menu page
MaxCand == 2

----------------------------------------------------------------------------
(* C values *)

\* a char* is <<>> (the null pointer) or <<s>> (a pointer to the string s);
\* a string is a sequence of one-character strings
NULL == <<>>
Ptr(s) == <<s>>
Deref(p) == p[1]

\* size_t is 32 bits wide on the wasm32 target.  A negative int converts to
\* a value of at least 2^31, above the size of every string; substr only
\* compares such a value with sizes, so all of them are represented by one
\* value above every size.
npos == 2147483647
ToSizeT(i) == IF i < 0 THEN npos ELSE i

Min(a, b) == IF a <= b THEN a ELSE b

\* rime_api.h Bool: int, True = 1, False = 0
RimeBool(c) == IF c # 0 THEN 1 ELSE 0

\* RimeApi* values
NoApi == "nullptr"
TheApi == "RimeApi"

\* the string returned by RimeApi::get_version
EngineVersion == <<"1", ".", "x">>
Unknown == <<"u", "n", "k", "n", "o", "w", "n">>

----------------------------------------------------------------------------
(* RimeCommit and RimeContext *)

\* RimeCommit commit = {0}
ZeroCommit == [data_size |-> 0, text |-> NULL]

ZeroComposition ==
  [length |-> 0, cursor_pos |-> 0, sel_start |-> 0, sel_end |-> 0,
   preedit |-> NULL]

ZeroMenu ==
  [num_candidates |-> 0, candidates |-> <<>>, page_no |-> 0,
   is_last_page |-> 0, highlighted_candidate_index |-> 0,
   select_keys |-> NULL]

\* RimeContext context = {0}
ZeroContext ==
  [data_size |-> 0, composition |-> ZeroComposition, menu |-> ZeroMenu,
   select_labels |-> NULL]

----------------------------------------------------------------------------
(* What the engine can answer *)

Handles == 1..NumHandles

Alphabet == <<"a", "b", "c", "d">>
\* the preedit of n bytes: its bytes are pairwise different, so that a
\* slice determines the offsets it was cut at
Preedit(n) == SubSeq(Alphabet, 1, n)

Digits == <<"1", "2", "3", "4">>
\* a compact select-key string of n keys
SelectKeys(n) == SubSeq(Digits, 1, n)

\* offsets the engine may report, the out-of-range ones included
Offsets == (0 - 1)..(MaxLen + 1)

\* answers of get_commit: <<return value, text written to the struct>>
CommitAnswers ==
  {<<0, NULL>>, <<1, NULL>>, <<1, Ptr(<<"h">>)>>, <<1, Ptr(<<"i">>)>>}

Candidate(text, comment) == [text |-> text, comment |-> comment]

CandidateSet ==
  {Candidate(t, c) : t \in {NULL, Ptr(<<"x">>)}, c \in {NULL, Ptr(<<"c">>)}}

SeqsOfLen(S, n) == [1..n -> S]

PlainCandidates(n) == [i \in 1..n |-> Candidate(Ptr(<<"x">>), NULL)]

Composition(len, cur, ss, se, pre) ==
  [length |-> len, cursor_pos |-> cur, sel_start |-> ss, sel_end |-> se,
   preedit |-> pre]

Menu(cands, page, last, hl, keys) ==
  [num_candidates |-> Len(cands), candidates |-> cands, page_no |-> page,
   is_last_page |-> last, highlighted_candidate_index |-> hl,
   select_keys |-> keys]

EngineContext(comp, menu, labels) ==
  [composition |-> comp, menu |-> menu, select_labels |-> labels]

PlainComposition == Composition(1, 1, 0, 1, Ptr(Preedit(1)))

\* a menu with every field different from the empty default
BusyMenu ==
  Menu(PlainCandidates(1), 1, 0, 1, Ptr(SelectKeys(1)))

\* compositions with a preedit: every pair of offsets, in range or not
ContextsSel ==
  {EngineContext(Composition(n, n, ss, se, Ptr(Preedit(n))), ZeroMenu, NULL) :
     n \in 1..MaxLen, ss \in Offsets, se \in Offsets}

\* compositions that differ in the cursor position only
ContextsCursor ==
  {EngineContext(Composition(MaxLen, cur, 0, MaxLen, Ptr(Preedit(MaxLen))),
                 ZeroMenu, NULL) : cur \in 0..(MaxLen + 1)}

\* no composition: length 0 or no preedit, whatever the rest holds
ContextsNoComposition ==
  {c \in {EngineContext(Composition(len, cur, 0, cur, pre), menu, labels) :
            len \in {0, 1}, cur \in {0, 1},
            pre \in {NULL, Ptr(<<>>), Ptr(Preedit(1))},
            menu \in {ZeroMenu, BusyMenu},
            labels \in {NULL, Ptr(<<Ptr(<<"1">>)>>)}} :
     ~(c.composition.length > 0 /\ c.composition.preedit # NULL)}

\* menus that differ in the candidates
ContextsCandidates ==
  {EngineContext(PlainComposition, Menu(cands, 0, 1, 0, NULL), NULL) :
     cands \in UNION {SeqsOfLen(CandidateSet, n) : n \in 0..MaxCand}}

\* menus that differ in the pagination fields
ContextsPaging ==
  {EngineContext(PlainComposition, Menu(PlainCandidates(1), page, last, hl, NULL),
                 NULL) : page \in {0, 1}, last \in {0, 1}, hl \in {0, 1}}

\* every combination of the two sources of select labels
ContextsLabels ==
  {EngineContext(PlainComposition,
                 Menu(PlainCandidates(n[1]), 0, 1, 0, keys), n[2]) :
     n \in UNION {{<<k, l>> :
                     l \in {NULL} \cup
                           {Ptr(a) : a \in SeqsOfLen({NULL, Ptr(<<"1">>)}, k)}} :
                  k \in 0..MaxCand},
     keys \in {NULL} \cup {Ptr(SelectKeys(k)) : k \in 0..(MaxCand + 1)}}

\* what get_context can write into the context of a live session
Contexts ==
  ContextsSel \cup ContextsCursor \cup ContextsNoComposition \cup
  ContextsCandidates \cup ContextsPaging \cup ContextsLabels

\* a few of them, one of each kind: idle, composing, a menu left behind
\* without a composition, and an offset beyond the preedit
SampleContexts ==
  {EngineContext(ZeroComposition, ZeroMenu, NULL),
   EngineContext(PlainComposition, BusyMenu, NULL),
   EngineContext(ZeroComposition, BusyMenu, Ptr(<<Ptr(<<"1">>)>>)),
   EngineContext(Composition(1, 1, 0, 2, Ptr(Preedit(1))), ZeroMenu, NULL)}

\* an engine: the pairs <<answer of get_commit, answer of get_context>> it
\* can give in one projection
SampleEngine == CommitAnswers \X SampleContexts
FullEngine == SampleEngine \cup ({<<1, Ptr(<<"h">>)>>} \X Contexts)

----------------------------------------------------------------------------
(* boost::json values and their serialization *)

JNull == <<"null">>
JString(s) == <<"string", s>>
JNumber(n) == <<"number", n>>
JBool(b) == <<"bool", b>>
JArray(a) == <<"array", a>>
JObject(pairs) == <<"object", pairs>>

\* the keys of the snapshot, in the order build_state inserts them
SnapshotKeys ==
  <<"committed", "preeditHead", "preeditBody", "preeditTail", "cursorPos",
    "candidates", "pageNo", "isLastPage", "highlightedIndex", "selectLabels">>

\* boost::json::serialize: the members of the object in insertion order.
\* The text is kept as the sequence of its <<key, value>> members.
serialize(obj) ==
  LET present == SelectSeq(SnapshotKeys, LAMBDA k : k \in DOMAIN obj)
  IN  [i \in 1..Len(present) |-> <<present[i], obj[present[i]]>>]

\* the literal "{}" returned when there is nothing to project
EmptyObjectText == <<>>

\* the keys of a serialized object
KeysOf(text) == {text[i][1] : i \in 1..Len(text)}

\* the value of member k of a serialized object that has it
Member(text, k) ==
  LET i == CHOOSE n \in 1..Len(text) : text[n][1] = k IN text[i][2]

----------------------------------------------------------------------------
(* std::string *)

\* std::string::substr(pos, n), both arguments converted to size_t: throws
\* std::out_of_range when pos > size(), else yields at most n bytes from pos
substr(s, pos, n) ==
  LET p == ToSizeT(pos)
      c == ToSizeT(n)
  IN  IF p > Len(s)
        THEN [thrown |-> TRUE, str |-> <<>>]
        ELSE [thrown |-> FALSE,
              str |-> SubSeq(s, p + 1, p + Min(c, Len(s) - p))]

----------------------------------------------------------------------------
(* The engine's transient structures *)

\* RimeApi::free_commit: releases the text and clears the struct
free_commit(c) == [c EXCEPT !.text = NULL]

\* RimeApi::get_commit: clears the struct and, when a commit is pending,
\* stores its text; ans is the engine's answer <<return value, text>>
get_commit(c, ans) == [c EXCEPT !.text = ans[2]]

\* RimeApi::free_context: releases every member and clears the struct
free_context(x) ==
  [data_size |-> x.data_size, composition |-> ZeroComposition,
   menu |-> ZeroMenu, select_labels |-> NULL]

\* RimeApi::get_context: fills the struct with the session's context ectx
get_context(x, ectx) ==
  [data_size |-> x.data_size, composition |-> ectx.composition,
   menu |-> ectx.menu, select_labels |-> ectx.select_labels]

----------------------------------------------------------------------------
(* build_state *)

\* commit_read, reading the struct as it was held before get_commit
commit_read_stale(c_old, c_new) == c_old

\* the struct build_state reads the committed text from: c_new, which
\* get_commit has just filled, not c_old, which was held before
commit_read(c_old, c_new) == c_new

\* result["committed"]
committed_value(has_commit, c) ==
  IF has_commit # 0 /\ c.text # NULL THEN JString(Deref(c.text)) ELSE JNull

\* composition_present without the test of the length
composition_present_preedit_only(x) == x.composition.preedit # NULL

\* the test that selects the populated branch of build_state
composition_present(x) ==
  x.composition.length > 0 /\ x.composition.preedit # NULL

\* preedit_slices, passing sel_end where substr takes a count
preedit_slices_end_as_count(x) ==
  LET preedit == Deref(x.composition.preedit)
      sel_start == x.composition.sel_start
      sel_end == x.composition.sel_end
      head == substr(preedit, 0, sel_start)
      body == substr(preedit, sel_start, sel_end)
      tail == substr(preedit, sel_end, npos)
  IN  [thrown |-> head.thrown \/ body.thrown \/ tail.thrown,
       head |-> head.str, body |-> body.str, tail |-> tail.str]

\* the three slices of the preedit
preedit_slices(x) ==
  LET preedit == Deref(x.composition.preedit)
      sel_start == x.composition.sel_start
      sel_end == x.composition.sel_end
      head == substr(preedit, 0, sel_start)
      body == substr(preedit, sel_start, sel_end - sel_start)
      tail == substr(preedit, sel_end, npos)
  IN  [thrown |-> head.thrown \/ body.thrown \/ tail.thrown,
       head |-> head.str, body |-> body.str, tail |-> tail.str]

\* one {text, comment} object per candidate of the page
candidates_value(menu) ==
  JArray([i \in 1..menu.num_candidates |->
            LET cand == menu.candidates[i]
            IN  JObject(<<
                  <<"text", JString(IF cand.text # NULL
                                      THEN Deref(cand.text) ELSE <<>>)>>,
                  <<"comment", JString(IF cand.comment # NULL
                                         THEN Deref(cand.comment) ELSE <<>>)>>
                >>)])

\* select_labels_value, consulting the compact key string first
select_labels_value_keys_first(x) ==
  IF x.menu.select_keys # NULL
    THEN LET keys == Deref(x.menu.select_keys)
             n == Min(Len(keys), x.menu.num_candidates)
         IN  JArray([i \in 1..n |-> JString(<<keys[i]>>)])
    ELSE IF x.select_labels # NULL
      THEN LET arr == Deref(x.select_labels)
           IN  JArray([i \in 1..x.menu.num_candidates |->
                         JString(IF arr[i] # NULL THEN Deref(arr[i])
                                 ELSE <<>>)])
      ELSE JArray(<<>>)

\* select_labels_value, walking the key string without the candidate bound
select_labels_value_unbounded(x) ==
  IF x.select_labels # NULL
    THEN LET arr == Deref(x.select_labels)
         IN  JArray([i \in 1..x.menu.num_candidates |->
                       JString(IF arr[i] # NULL THEN Deref(arr[i]) ELSE <<>>)])
    ELSE IF x.menu.select_keys # NULL
      THEN LET keys == Deref(x.menu.select_keys)
           IN  JArray([i \in 1..Len(keys) |-> JString(<<keys[i]>>)])
      ELSE JArray(<<>>)

\* the select labels: the explicit array, else the compact key string
select_labels_value(x) ==
  IF x.select_labels # NULL
    THEN LET arr == Deref(x.select_labels)
         IN  JArray([i \in 1..x.menu.num_candidates |->
                       JString(IF arr[i] # NULL THEN Deref(arr[i]) ELSE <<>>)])
    ELSE IF x.menu.select_keys # NULL
      THEN LET keys == Deref(x.menu.select_keys)
               n == Min(Len(keys), x.menu.num_candidates)
           IN  JArray([i \in 1..n |-> JString(<<keys[i]>>)])
      ELSE JArray(<<>>)

\* the members set when there is a composition
populated_fields(x) ==
  LET sl == preedit_slices(x)
  IN  [preeditHead |-> JString(sl.head),
       preeditBody |-> JString(sl.body),
       preeditTail |-> JString(sl.tail),
       cursorPos |-> JNumber(x.composition.cursor_pos),
       candidates |-> candidates_value(x.menu),
       pageNo |-> JNumber(x.menu.page_no),
       isLastPage |-> JBool(x.menu.is_last_page # 0),
       highlightedIndex |-> JNumber(x.menu.highlighted_candidate_index),
       selectLabels |-> select_labels_value(x)]

\* the members set when there is no composition
default_fields ==
  [preeditHead |-> JString(<<>>),
   preeditBody |-> JString(<<>>),
   preeditTail |-> JString(<<>>),
   cursorPos |-> JNumber(0),
   candidates |-> JArray(<<>>),
   pageNo |-> JNumber(0),
   isLastPage |-> JBool(TRUE),
   highlightedIndex |-> JNumber(0),
   selectLabels |-> JArray(<<>>)]

\* build_state without the release of the held commit before get_commit
build_state_commit_not_released(c0, x0, sess, ans, ectx) ==
  LET c2 == get_commit(c0, ans)
      has_commit == ans[1]
      x1 == free_context(x0)
      x2 == get_context(x1, ectx)
      present == composition_present(x2)
      fields == IF present THEN populated_fields(x2) ELSE default_fields
  IN  [commit |-> c2,
       context |-> x2,
       calls |-> << <<"get_commit", sess, ans>>,
                    <<"free_context">>, <<"get_context", sess, ectx>> >>,
       thrown |-> present /\ preedit_slices(x2).thrown,
       result |-> [committed |-> committed_value(has_commit, c2)] @@ fields]

\* build_state for the held commit c0 and context x0 and session handle
\* sess, when the engine answers get_commit with ans and get_context with
\* ectx.  Yields the structs as build_state leaves them, the engine calls it
\* made, whether std::out_of_range was thrown, and the object it returns.
build_state(c0, x0, sess, ans, ectx) ==
  LET c1 == free_commit(c0)
      c2 == get_commit(c1, ans)
      has_commit == ans[1]
      x1 == free_context(x0)
      x2 == get_context(x1, ectx)
      present == composition_present(x2)
      fields == IF present THEN populated_fields(x2) ELSE default_fields
  IN  [commit |-> c2,
       context |-> x2,
       calls |-> << <<"free_commit">>, <<"get_commit", sess, ans>>,
                    <<"free_context">>, <<"get_context", sess, ectx>> >>,
       thrown |-> present /\ preedit_slices(x2).thrown,
       result |-> [committed |-> committed_value(has_commit, commit_read(c0, c2))]
                  @@ fields]

----------------------------------------------------------------------------
(* State *)

VARIABLES
  api,             \* rime_wasm::api: NoApi or TheApi
  session,         \* rime_wasm::session: 0 or a session id
  commit,          \* rime_wasm::commit
  context,         \* rime_wasm::context
  json_buf,        \* rime_wasm::json_buf: the text serialized last
  engine_started,  \* rime_wasm::engine_started
  live,            \* engine: the sessions created and not yet destroyed
  initialized,     \* engine: initialize was called and finalize was not since
  aborted,         \* an exception left an exported function: the module is dead
  lastCall,        \* history: the exported function called last, with arguments
  lastRet,         \* history: what that call returned
  calls,           \* history: the engine calls that call made, in order
  initRet          \* history: what the latest rime_wasm_init returned

bridge == <<api, session, commit, context, json_buf, engine_started>>
engine == <<live, initialized>>
vars == <<api, session, commit, context, json_buf, engine_started,
          live, initialized, aborted, lastCall, lastRet, calls, initRet>>

\* what an exported function returned: nothing (void), a status, a C string,
\* the text of a JSON object; or it threw; RetNever: it was never called
RetVoid == <<"void">>
RetThrew == <<"threw", "std::out_of_range", 0>>
RetNever == <<"never", 0, 0, 0>>
RetInt(n) == <<"int", n>>
RetStr(str) == <<"string", str>>
RetJson(text) == <<"json", text>>

Init ==
  /\ api = NoApi
  /\ session = 0
  /\ commit = ZeroCommit
  /\ context = ZeroContext
  /\ json_buf = EmptyObjectText
  /\ engine_started = FALSE
  /\ live = {}
  /\ initialized = FALSE
  /\ aborted = FALSE
  /\ lastCall = <<"none">>
  /\ lastRet = RetVoid
  /\ calls = <<>>
  /\ initRet = RetNever

----------------------------------------------------------------------------
(* The exported functions *)

\* what engine E can answer to a projection on handle s: a handle that
\* names no session gets no commit and a cleared context
AnswersFor(E, s) ==
  IF s \in live THEN E
  ELSE {<< <<0, NULL>>, EngineContext(ZeroComposition, ZeroMenu, NULL) >>}

\* RIME_STRUCT_INIT(Type, var): sets data_size and nothing else
RIME_STRUCT_INIT(var) == [var EXCEPT !.data_size = 1]

\* init_status without the test of the session
init_status_unchecked(a, s) == IF a = NoApi THEN 0 - 1 ELSE 0

\* the value rime_wasm_init returns, given the api and session it obtained
init_status(a, s) == IF a = NoApi THEN 0 - 1 ELSE IF s = 0 THEN 0 - 2 ELSE 0

\* rime_wasm_init, when rime_get_api yields a and create_session yields s
rime_wasm_init(a, s) ==
  /\ ~aborted
  /\ lastCall' = <<"rime_wasm_init">>
  /\ lastRet' = RetInt(init_status(a, s))
  /\ initRet' = RetInt(init_status(a, s))
  /\ api' = a
  /\ UNCHANGED <<json_buf, aborted>>
  /\ IF a = NoApi
       THEN /\ s = 0
            /\ calls' = << <<"rime_get_api", a>> >>
            /\ UNCHANGED <<session, commit, context, engine_started, live,
                           initialized>>
       ELSE /\ s \in {0} \cup (Handles \ live)
            /\ calls' = << <<"rime_get_api", a>>, <<"setup">>,
                           <<"initialize">>, <<"start_maintenance", 1>>,
                           <<"create_session", s>> >>
            /\ initialized' = TRUE
            /\ session' = s
            /\ live' = live \cup ({s} \ {0})
            /\ IF s = 0
                 THEN UNCHANGED <<commit, context, engine_started>>
                 ELSE /\ commit' = RIME_STRUCT_INIT(commit)
                      /\ context' = RIME_STRUCT_INIT(context)
                      /\ engine_started' = TRUE

\* process_input_rejects without the test of keys
process_input_rejects_keys_unchecked(keys) == api = NoApi \/ session = 0

\* the early-return tests of the exported functions
process_input_rejects(keys) == api = NoApi \/ session = 0 \/ keys = NULL
pick_candidate_rejects_api_only == api = NoApi
pick_candidate_rejects == api = NoApi \/ session = 0
flip_page_rejects_api_only == api = NoApi
flip_page_rejects == api = NoApi \/ session = 0
clear_input_rejects_inverted == api = NoApi \/ session # 0
clear_input_rejects == api = NoApi \/ session = 0
set_option_rejects(option) == api = NoApi \/ session = 0 \/ option = NULL

\* project_and_return with the snapshot built before the engine call
project_and_return_before_mutation(E, mutation) ==
  \E answer \in AnswersFor(E, session) :
    LET b == build_state(commit, context, session, answer[1], answer[2])
    IN  /\ calls' = b.calls \o <<mutation>>
        /\ commit' = b.commit
        /\ context' = b.context
        /\ IF b.thrown
             THEN /\ aborted' = TRUE
                  /\ lastRet' = RetThrew
                  /\ UNCHANGED json_buf
             ELSE /\ json_buf' = serialize(b.result)
                  /\ lastRet' = RetJson(serialize(b.result))
                  /\ UNCHANGED aborted
        /\ UNCHANGED <<api, session, engine_started, live, initialized,
                       initRet>>

\* return to_json_cstr(build_state()), after the engine call mutation
project_and_return(E, mutation) ==
  \E answer \in AnswersFor(E, session) :
    LET b == build_state(commit, context, session, answer[1], answer[2])
    IN  /\ calls' = <<mutation>> \o b.calls
        /\ commit' = b.commit
        /\ context' = b.context
        /\ IF b.thrown
             THEN /\ aborted' = TRUE
                  /\ lastRet' = RetThrew
                  /\ UNCHANGED json_buf
             ELSE /\ json_buf' = serialize(b.result)
                  /\ lastRet' = RetJson(serialize(b.result))
                  /\ UNCHANGED aborted
        /\ UNCHANGED <<api, session, engine_started, live, initialized,
                       initRet>>

\* return "{}"
return_empty_object ==
  /\ lastRet' = RetJson(EmptyObjectText)
  /\ calls' = <<>>
  /\ UNCHANGED <<bridge, engine, aborted, initRet>>

\* return from a void function without an engine call
return_void ==
  /\ lastRet' = RetVoid
  /\ calls' = <<>>
  /\ UNCHANGED <<bridge, engine, aborted, initRet>>

rime_wasm_process_input(E, keys) ==
  /\ ~aborted
  /\ lastCall' = <<"rime_wasm_process_input", keys>>
  /\ IF process_input_rejects(keys)
       THEN return_empty_object
       ELSE project_and_return(E, <<"simulate_key_sequence", session, keys>>)

rime_wasm_pick_candidate(E, index) ==
  /\ ~aborted
  /\ lastCall' = <<"rime_wasm_pick_candidate", index>>
  /\ IF pick_candidate_rejects
       THEN return_empty_object
       ELSE project_and_return(E,
              <<"select_candidate_on_current_page", session, index>>)

rime_wasm_flip_page(E, backward) ==
  /\ ~aborted
  /\ lastCall' = <<"rime_wasm_flip_page", backward>>
  /\ IF flip_page_rejects
       THEN return_empty_object
       ELSE project_and_return(E, <<"change_page", session, RimeBool(backward)>>)

rime_wasm_clear_input ==
  /\ ~aborted
  /\ lastCall' = <<"rime_wasm_clear_input">>
  /\ IF clear_input_rejects
       THEN return_void
       ELSE /\ calls' = << <<"clear_composition", session>> >>
            /\ lastRet' = RetVoid
            /\ UNCHANGED <<bridge, engine, aborted, initRet>>

rime_wasm_set_option(option, value) ==
  /\ ~aborted
  /\ lastCall' = <<"rime_wasm_set_option", option, value>>
  /\ IF set_option_rejects(option)
       THEN return_void
       ELSE /\ calls' = << <<"set_option", session, option, RimeBool(value)>> >>
            /\ lastRet' = RetVoid
            /\ UNCHANGED <<bridge, engine, aborted, initRet>>

\* get_version_rejects, asking for a session too
get_version_rejects_without_session == api = NoApi \/ session = 0

\* the early-return test of rime_wasm_get_version
get_version_rejects == api = NoApi

rime_wasm_get_version ==
  /\ ~aborted
  /\ lastCall' = <<"rime_wasm_get_version">>
  /\ IF get_version_rejects
       THEN /\ lastRet' = RetStr(Unknown)
            /\ calls' = <<>>
       ELSE /\ lastRet' = RetStr(EngineVersion)
            /\ calls' = << <<"get_version">> >>
  /\ UNCHANGED <<bridge, engine, aborted, initRet>>

\* destroy_rejects, returning early without a session too
destroy_rejects_without_session == api = NoApi \/ session = 0

\* the early-return test of rime_wasm_destroy
destroy_rejects == api = NoApi

\* session_after_destroy, the handle not reset
session_after_destroy_kept == session

\* the handle rime_wasm_destroy leaves in session after destroy_session
session_after_destroy == 0

\* started_after_destroy, the flag not reset
started_after_destroy_kept == engine_started

\* the value rime_wasm_destroy leaves in engine_started
started_after_destroy == FALSE

\* rime_wasm_destroy; RimeApi::finalize stops the service, which discards
\* every session
rime_wasm_destroy ==
  /\ ~aborted
  /\ lastCall' = <<"rime_wasm_destroy">>
  /\ lastRet' = RetVoid
  /\ UNCHANGED <<api, commit, context, json_buf, aborted, initRet>>
  /\ IF destroy_rejects
       THEN /\ calls' = <<>>
            /\ UNCHANGED <<session, engine_started, live, initialized>>
       ELSE /\ calls' = (IF session # 0
                           THEN << <<"destroy_session", session>> >>
                           ELSE <<>>) \o << <<"finalize">> >>
            /\ session' = (IF session # 0 THEN session_after_destroy
                           ELSE session)
            /\ live' = {}
            /\ initialized' = FALSE
            /\ engine_started' = started_after_destroy

\* arguments the host passes
KeyArgs == {NULL, Ptr(<<"k">>)}
IndexArgs == {1}
FlagArgs == {0, 2}
OptionArgs == {NULL, Ptr(<<"o">>)}

\* every exported function, in any order, against the sample engine
Next ==
  \/ \E a \in {NoApi, TheApi}, s \in {0} \cup Handles : rime_wasm_init(a, s)
  \/ \E keys \in KeyArgs : rime_wasm_process_input(SampleEngine, keys)
  \/ \E index \in IndexArgs : rime_wasm_pick_candidate(SampleEngine, index)
  \/ \E backward \in FlagArgs : rime_wasm_flip_page(SampleEngine, backward)
  \/ rime_wasm_clear_input
  \/ \E option \in OptionArgs, value \in FlagArgs :
       rime_wasm_set_option(option, value)
  \/ rime_wasm_get_version
  \/ rime_wasm_destroy

Spec == Init /\ [][Next]_vars

\* the projecting functions on one session, against the full engine
NextProjection ==
  \/ rime_wasm_init(TheApi, 1)
  \/ rime_wasm_process_input(FullEngine, Ptr(<<"k">>))
  \/ rime_wasm_pick_candidate(FullEngine, 1)
  \/ rime_wasm_flip_page(FullEngine, 0)

SpecProjection == Init /\ [][NextProjection]_vars

----------------------------------------------------------------------------
(* Vocabulary of the properties *)

\* the name of the exported function that made the step into this state
LastOp == lastCall[1]

\* the functions that act on the session
SessionOps ==
  {"rime_wasm_process_input", "rime_wasm_pick_candidate",
   "rime_wasm_flip_page", "rime_wasm_clear_input", "rime_wasm_set_option"}

\* those of them that return a snapshot
SnapshotOps ==
  {"rime_wasm_process_input", "rime_wasm_pick_candidate",
   "rime_wasm_flip_page"}

\* what a session function returns when it does nothing
EmptyResult(op) ==
  IF op \in SnapshotOps THEN RetJson(EmptyObjectText) ELSE RetVoid

\* the names of the engine calls of a trace
CallNames(trace) == {trace[i][1] : i \in 1..Len(trace)}

\* the last call built a snapshot and returned it
Projected ==
  /\ LastOp \in SnapshotOps
  /\ lastRet[1] = "json"
  /\ Len(calls) = 5

\* what the engine answered to get_commit and get_context in that call
AnsweredCommit == calls[3][3]
AnsweredContext == calls[5][3]

\* the committed member that answer stands for
CommittedOf(ans) ==
  IF ans[1] = 0 \/ ans[2] = NULL THEN JNull ELSE JString(Deref(ans[2]))

----------------------------------------------------------------------------
(* C1 *)

\* C1: in every reachable state at most one session created by the binding
\* is live in the engine (created and not destroyed since).
C1_AtMostOneLiveSession == Cardinality(live) <= 1

----------------------------------------------------------------------------
(* C2 *)

\* C2: a step of feedInput, pickCandidate, flipPage, clearInput or setOption
\* taken while the api or the session is absent makes no engine call, leaves
\* the binding's and the engine's state unchanged and returns the empty
\* result of that function.
C2_AbsentSessionNoOp ==
  [][(LastOp' \in SessionOps /\ (api = NoApi \/ session = 0))
       => /\ calls' = <<>>
          /\ bridge' = bridge
          /\ engine' = engine
          /\ lastRet' = EmptyResult(LastOp')]_vars

\* pickCandidate was called with the api held and no session, after a use
\* of a session that destroy ended, and returned "{}"
C2_Witness ==
  /\ LastOp = "rime_wasm_pick_candidate"
  /\ api = TheApi
  /\ session = 0
  /\ json_buf # EmptyObjectText
  /\ lastRet = RetJson(EmptyObjectText)

----------------------------------------------------------------------------
(* C3 *)

\* C3: every value returned by feedInput, pickCandidate or flipPage is an
\* object with all ten snapshot keys, committed being a string or null.
C3_SnapshotAlwaysComplete ==
  (LastOp \in SnapshotOps /\ lastRet[1] = "json")
    => /\ KeysOf(lastRet[2]) = {SnapshotKeys[i] : i \in 1..Len(SnapshotKeys)}
       /\ Member(lastRet[2], "committed")[1] \in {"string", "null"}

----------------------------------------------------------------------------
(* C4 *)

\* C4: initialize returns -1 exactly when rime_get_api yields no api, and
\* then calls nothing else; -2 exactly when the api was obtained and
\* create_session yielded 0; 0 exactly when a session was created, and then
\* the binding holds that live session.  While the latest initialize
\* returned -1 or -2, every session function is a no-op.
C4_InitStatus ==
  [][/\ LastOp' = "rime_wasm_init"
          => /\ calls'[1][1] = "rime_get_api"
             /\ (lastRet' = RetInt(0 - 1)) <=> (calls'[1][2] = NoApi)
             /\ (lastRet' = RetInt(0 - 1))
                  => /\ Len(calls') = 1
                     /\ <<session, live, initialized>>'
                          = <<session, live, initialized>>
             /\ (lastRet' = RetInt(0 - 2))
                  <=> (Len(calls') = 5 /\ calls'[5] = <<"create_session", 0>>)
             /\ (lastRet' = RetInt(0))
                  <=> /\ Len(calls') = 5
                      /\ calls'[5][1] = "create_session"
                      /\ calls'[5][2] # 0
             /\ (lastRet' = RetInt(0))
                  => /\ api' = TheApi
                     /\ session' = calls'[5][2]
                     /\ session' \in live'
             /\ lastRet' \in {RetInt(0 - 1), RetInt(0 - 2), RetInt(0)}
     /\ (initRet \in {RetInt(0 - 1), RetInt(0 - 2)} /\ LastOp' \in SessionOps)
          => /\ calls' = <<>>
             /\ bridge' = bridge
             /\ lastRet' = EmptyResult(LastOp')]_vars

\* initialize returned -2 after an earlier session was used, and feedInput
\* then returned "{}"
C4_Witness ==
  /\ initRet = RetInt(0 - 2)
  /\ json_buf # EmptyObjectText
  /\ LastOp = "rime_wasm_process_input"
  /\ lastCall[2] # NULL
  /\ lastRet = RetJson(EmptyObjectText)

----------------------------------------------------------------------------
(* C5 *)

\* C5 as claimed: a destroy that directly follows a destroy leaves the
\* binding and the engine as they were and calls neither destroy_session nor
\* finalize.
C5_SecondDestroyCallsNothing ==
  [][(LastOp = "rime_wasm_destroy" /\ LastOp' = "rime_wasm_destroy")
       => /\ bridge' = bridge
          /\ engine' = engine
          /\ CallNames(calls') \cap {"destroy_session", "finalize"} = {}]_vars

\* C5 as amended: a destroy that directly follows a destroy leaves the
\* binding and the engine as they were and calls no destroy_session; it
\* calls finalize once more when the api is held and nothing when it is not.
\* Every destroy_session is called on a session that is live at that moment,
\* so no session is destroyed twice.
C5_DestroyIdempotentState ==
  [][/\ (LastOp = "rime_wasm_destroy" /\ LastOp' = "rime_wasm_destroy")
          => /\ bridge' = bridge
             /\ engine' = engine
             /\ "destroy_session" \notin CallNames(calls')
             /\ calls' = IF api = NoApi THEN <<>> ELSE << <<"finalize">> >>
     /\ \A i \in 1..Len(calls') :
          calls'[i][1] = "destroy_session" => calls'[i][2] \in live]_vars

\* the second of two destroy calls after a successful initialize has
\* returned: right after such an initialize a destroy calls destroy_session
C5_Witness ==
  /\ LastOp = "rime_wasm_destroy"
  /\ initRet = RetInt(0)
  /\ calls = << <<"finalize">> >>
  /\ session = 0
  /\ ~initialized

----------------------------------------------------------------------------
(* C6 *)

\* C6: when initialize returns -2 the api is held, the engine is
\* initialized and the binding has no session; a destroy called while the
\* latest initialize returned -2 calls finalize and no destroy_session, and
\* leaves the engine not initialized.
C6_DestroyAfterFailedSession ==
  [][/\ (LastOp' = "rime_wasm_init" /\ lastRet' = RetInt(0 - 2))
          => (api' = TheApi /\ initialized' /\ session' = 0)
     /\ (initRet = RetInt(0 - 2) /\ LastOp' = "rime_wasm_destroy")
          => /\ calls' = << <<"finalize">> >>
             /\ ~initialized'
             /\ session' = 0]_vars

\* destroy has finalized the engine that an initialize returning -2 left
\* initialized
C6_Witness ==
  /\ LastOp = "rime_wasm_destroy"
  /\ initRet = RetInt(0 - 2)
  /\ calls = << <<"finalize">> >>
  /\ ~initialized
  /\ api = TheApi

----------------------------------------------------------------------------
(* C7 *)

\* C7: the api is absent exactly when initialize was never called or its
\* latest call returned -1; getVersion returns "unknown" when the api is
\* absent and the engine's version string otherwise; after a successful
\* initialize and a destroy, feedInput returns "{}" without an engine call.
C7_VersionWhileApiHeld ==
  [][/\ (api' = NoApi) <=> (initRet' \in {RetNever, RetInt(0 - 1)})
     /\ LastOp' = "rime_wasm_get_version"
          => /\ lastRet' = IF api = NoApi THEN RetStr(Unknown)
                           ELSE RetStr(EngineVersion)
             /\ (lastRet' = RetStr(Unknown)) <=> (api = NoApi)
     /\ (initRet = RetInt(0) /\ session = 0
           /\ LastOp' = "rime_wasm_process_input")
          => (lastRet' = RetJson(EmptyObjectText) /\ calls' = <<>>)]_vars

\* getVersion returned the version string after a successful initialize
\* and a destroy
C7_Witness ==
  /\ LastOp = "rime_wasm_get_version"
  /\ lastRet = RetStr(EngineVersion)
  /\ initRet = RetInt(0)
  /\ session = 0
  /\ ~initialized

----------------------------------------------------------------------------
(* C8 *)

\* C8: in every snapshot, committed is null exactly when get_commit of that
\* projection reported no commit or stored no text, and is otherwise the
\* text that get_commit stored in that projection.
C8_CommittedFromThisProjection ==
  Projected
    => /\ Member(lastRet[2], "committed") = CommittedOf(AnsweredCommit)
       /\ (Member(lastRet[2], "committed") = JNull)
            <=> (AnsweredCommit[1] = 0 \/ AnsweredCommit[2] = NULL)

\* a snapshot reports the text "i" that get_commit stored
C8_Witness ==
  /\ Projected
  /\ AnsweredCommit = <<1, Ptr(<<"i">>)>>
  /\ Member(lastRet[2], "committed") = JString(<<"i">>)

----------------------------------------------------------------------------
(* C9 *)

\* C9: when get_context reports a composition (length > 0 and a preedit)
\* with 0 <= sel_start <= sel_end <= len(preedit), the snapshot's
\* preeditHead, preeditBody and preeditTail concatenate to the preedit,
\* preeditHead has sel_start bytes, head and body together have sel_end
\* bytes, and cursorPos is the engine's cursor_pos.
C9_SlicesPartitionPreedit ==
  (/\ Projected
   /\ composition_present(AnsweredContext)
   /\ 0 <= AnsweredContext.composition.sel_start
   /\ AnsweredContext.composition.sel_start
        <= AnsweredContext.composition.sel_end
   /\ AnsweredContext.composition.sel_end
        <= Len(Deref(AnsweredContext.composition.preedit)))
    => LET comp == AnsweredContext.composition
           head == Member(lastRet[2], "preeditHead")[2]
           body == Member(lastRet[2], "preeditBody")[2]
           tail == Member(lastRet[2], "preeditTail")[2]
       IN  /\ head \o body \o tail = Deref(comp.preedit)
           /\ Len(head) = comp.sel_start
           /\ Len(head) + Len(body) = comp.sel_end
           /\ Member(lastRet[2], "cursorPos") = JNumber(comp.cursor_pos)

\* a snapshot of the preedit "ab" with the selection [1, 1): an empty body
\* between a head and a tail
C9_Witness ==
  /\ Projected
  /\ composition_present(AnsweredContext)
  /\ AnsweredContext.composition.sel_start = 1
  /\ AnsweredContext.composition.sel_end = 1
  /\ Member(lastRet[2], "preeditHead") = JString(<<"a">>)
  /\ Member(lastRet[2], "preeditBody") = JString(<<>>)
  /\ Member(lastRet[2], "preeditTail") = JString(<<"b">>)

----------------------------------------------------------------------------
(* C10 *)

\* C10: when get_context reports length 0 or no preedit, whatever its menu
\* and labels hold, the snapshot has empty preeditHead, preeditBody and
\* preeditTail, cursorPos 0, no candidates, pageNo 0, isLastPage true,
\* highlightedIndex 0 and no selectLabels, and committed as get_commit
\* answered.
C10_NoCompositionDefaults ==
  (/\ Projected
   /\ (AnsweredContext.composition.length = 0
         \/ AnsweredContext.composition.preedit = NULL))
    => /\ Member(lastRet[2], "preeditHead") = JString(<<>>)
       /\ Member(lastRet[2], "preeditBody") = JString(<<>>)
       /\ Member(lastRet[2], "preeditTail") = JString(<<>>)
       /\ Member(lastRet[2], "cursorPos") = JNumber(0)
       /\ Member(lastRet[2], "candidates") = JArray(<<>>)
       /\ Member(lastRet[2], "pageNo") = JNumber(0)
       /\ Member(lastRet[2], "isLastPage") = JBool(TRUE)
       /\ Member(lastRet[2], "highlightedIndex") = JNumber(0)
       /\ Member(lastRet[2], "selectLabels") = JArray(<<>>)
       /\ Member(lastRet[2], "committed") = CommittedOf(AnsweredCommit)

\* a snapshot with the defaults and a committed text, taken while the
\* context held a preedit of length 0, a menu and labels
C10_Witness ==
  /\ Projected
  /\ AnsweredContext.composition.length = 0
  /\ AnsweredContext.composition.preedit # NULL
  /\ AnsweredContext.composition.cursor_pos = 1
  /\ AnsweredContext.menu = BusyMenu
  /\ AnsweredContext.select_labels # NULL
  /\ Member(lastRet[2], "candidates") = JArray(<<>>)
  /\ Member(lastRet[2], "committed") = JString(<<"h">>)

----------------------------------------------------------------------------
(* C11 *)

\* C11: when get_context reports an explicit label array, with or without
\* a compact key string, selectLabels has one entry per candidate of the
\* snapshot, as many as candidates has, entry i being the i-th explicit
\* label, or the empty string where that label is absent; with a
\* composition the candidates of the snapshot are those of the menu.
C11_ExplicitLabelsPerCandidate ==
  (Projected /\ AnsweredContext.select_labels # NULL)
    => LET arr == Deref(AnsweredContext.select_labels)
           labels == Member(lastRet[2], "selectLabels")[2]
           cands == Member(lastRet[2], "candidates")[2]
       IN  /\ Len(labels) = Len(cands)
           /\ composition_present(AnsweredContext)
                => Len(cands) = AnsweredContext.menu.num_candidates
           /\ \A i \in 1..Len(cands) :
                labels[i] = JString(IF arr[i] = NULL THEN <<>>
                                    ELSE Deref(arr[i]))

\* two candidates, the explicit labels (absent, "1") and the key string
\* "123": selectLabels is ("", "1")
C11_Witness ==
  /\ Projected
  /\ composition_present(AnsweredContext)
  /\ AnsweredContext.menu.num_candidates = 2
  /\ AnsweredContext.select_labels = Ptr(<<NULL, Ptr(<<"1">>)>>)
  /\ AnsweredContext.menu.select_keys = Ptr(SelectKeys(3))
  /\ Member(lastRet[2], "selectLabels")
       = JArray(<<JString(<<>>), JString(<<"1">>)>>)

----------------------------------------------------------------------------
(* C12 *)

\* C12: when get_context reports no explicit label array, a compact key
\* string gives min(its length, number of candidates of the snapshot)
\* labels, label i being the one-character string of key i, so fewer labels
\* than candidates when the key string is the shorter; with neither source
\* selectLabels is empty.
C12_KeyStringLabels ==
  (Projected /\ AnsweredContext.select_labels = NULL)
    => LET menu == AnsweredContext.menu
           labels == Member(lastRet[2], "selectLabels")[2]
           cands == Member(lastRet[2], "candidates")[2]
       IN  IF menu.select_keys = NULL
             THEN labels = <<>>
             ELSE LET keys == Deref(menu.select_keys)
                  IN  /\ Len(labels) = Min(Len(keys), Len(cands))
                      /\ composition_present(AnsweredContext)
                           => Len(cands) = menu.num_candidates
                      /\ \A i \in 1..Len(labels) :
                           labels[i] = JString(<<keys[i]>>)
                      /\ Len(keys) < Len(cands) => Len(labels) < Len(cands)

\* two candidates and the key string "1": one label for two candidates
C12_Witness ==
  /\ Projected
  /\ composition_present(AnsweredContext)
  /\ AnsweredContext.select_labels = NULL
  /\ AnsweredContext.menu.select_keys = Ptr(SelectKeys(1))
  /\ Len(Member(lastRet[2], "candidates")[2]) = 2
  /\ Member(lastRet[2], "selectLabels") = JArray(<<JString(<<"1">>)>>)

----------------------------------------------------------------------------
(* C13 *)

\* C13: on a live session, feedInput called with a null key sequence and
\* setOption called with a null option name make no engine call, so no
\* commit is fetched and the held commit and context are not released;
\* they leave the binding's and the engine's state unchanged, and feedInput
\* returns "{}".
C13_NullArgumentNoOp ==
  [][(/\ api = TheApi
      /\ session \in live
      /\ \/ LastOp' = "rime_wasm_process_input"
         \/ LastOp' = "rime_wasm_set_option"
      /\ lastCall'[2] = NULL)
       => /\ calls' = <<>>
          /\ bridge' = bridge
          /\ engine' = engine
          /\ lastRet' = EmptyResult(LastOp')]_vars

\* feedInput(null) returned "{}" on a live session whose held commit still
\* has its text
C13_Witness ==
  /\ lastCall = <<"rime_wasm_process_input", NULL>>
  /\ api = TheApi
  /\ session \in live
  /\ commit.text # NULL
  /\ calls = <<>>
  /\ lastRet = RetJson(EmptyObjectText)

----------------------------------------------------------------------------
(* C14 *)

\* a commit struct, a context struct, holds memory acquired from the engine
CommitHeld(c) == c.text # NULL
ContextHeld(x) == x # free_context(x)

\* the number of acquired and not released commits after the engine calls
\* of trace, when held of them were outstanding before it
RECURSIVE CommitsOutstanding(_, _)
CommitsOutstanding(trace, held) ==
  IF trace = <<>> THEN held
  ELSE LET c == Head(trace)
           now == IF c[1] = "free_commit" THEN 0
                  ELSE IF c[1] = "get_commit" /\ c[3][2] # NULL
                    THEN held + 1
                    ELSE held
       IN  CommitsOutstanding(Tail(trace), now)

\* the same for contexts
RECURSIVE ContextsOutstanding(_, _)
ContextsOutstanding(trace, held) ==
  IF trace = <<>> THEN held
  ELSE LET c == Head(trace)
           now == IF c[1] = "free_context" THEN 0
                  ELSE IF c[1] = "get_context"
                            /\ c[3] # EngineContext(ZeroComposition,
                                                    ZeroMenu, NULL)
                    THEN held + 1
                    ELSE held
       IN  ContextsOutstanding(Tail(trace), now)

\* C14: in every exported call, each get_commit directly follows a
\* free_commit and each get_context directly follows a free_context, the
\* context pair being called whatever get_commit answered; at no point of
\* the call is more than one acquired commit or more than one acquired
\* context unreleased; and after the call the held structs are the ones
\* acquired last, which are the ones the snapshot was read from.
C14_ReleaseBeforeAcquire ==
  [][/\ \A i \in 1..Len(calls') :
          /\ calls'[i][1] = "get_commit"
               => (i > 1 /\ calls'[i - 1][1] = "free_commit")
          /\ calls'[i][1] = "get_context"
               => (i > 1 /\ calls'[i - 1][1] = "free_context")
          /\ calls'[i][1] = "get_commit"
               => /\ Len(calls') >= i + 2
                  /\ calls'[i + 1][1] = "free_context"
                  /\ calls'[i + 2][1] = "get_context"
     /\ \A k \in 0..Len(calls') :
          /\ CommitsOutstanding(SubSeq(calls', 1, k),
                                IF CommitHeld(commit) THEN 1 ELSE 0) <= 1
          /\ ContextsOutstanding(SubSeq(calls', 1, k),
                                 IF ContextHeld(context) THEN 1 ELSE 0) <= 1
     /\ "get_commit" \in CallNames(calls')
          => /\ commit'.text = calls'[3][3][2]
             /\ context' = get_context(context, calls'[5][3])]_vars

\* a projection in which get_commit reported no commit and a context was
\* released and acquired all the same
C14_Witness ==
  /\ Projected
  /\ AnsweredCommit = <<0, NULL>>
  /\ ~CommitHeld(commit)
  /\ ContextHeld(context)
  /\ Member(json_buf, "committed") = JNull
  /\ {"free_commit", "get_commit", "free_context", "get_context"}
       \subseteq CallNames(calls)

----------------------------------------------------------------------------
(* C15 *)

\* the engine call that a snapshot function makes for its arguments
MutationOf(call, s) ==
  IF call[1] = "rime_wasm_process_input"
    THEN <<"simulate_key_sequence", s, call[2]>>
  ELSE IF call[1] = "rime_wasm_pick_candidate"
    THEN <<"select_candidate_on_current_page", s, call[2]>>
  ELSE <<"change_page", s, IF call[2] # 0 THEN 1 ELSE 0>>

\* C15: on a live session, feedInput with a key sequence, pickCandidate and
\* flipPage make exactly the engine calls: their one mutation on the
\* session, then free_commit, get_commit, free_context, get_context on the
\* session; the snapshot they return, which is also the text left in the
\* buffer, is the one that the answers of these two get calls determine,
\* whatever commit and context were held before.
C15_MutateThenProject ==
  [][(/\ api = TheApi
      /\ session \in live
      /\ LastOp' \in SnapshotOps
      /\ LastOp' = "rime_wasm_process_input" => lastCall'[2] # NULL)
       => /\ Len(calls') = 5
          /\ calls'[1] = MutationOf(lastCall', session)
          /\ calls'[2] = <<"free_commit">>
          /\ calls'[3][1] = "get_commit" /\ calls'[3][2] = session
          /\ calls'[4] = <<"free_context">>
          /\ calls'[5][1] = "get_context" /\ calls'[5][2] = session
          /\ lastRet'[1] = "json"
               => LET fresh == build_state(ZeroCommit, ZeroContext, session,
                                           calls'[3][3], calls'[5][3])
                  IN  /\ lastRet' = RetJson(serialize(fresh.result))
                      /\ json_buf' = serialize(fresh.result)
                      /\ Member(lastRet'[2], "committed")
                           = CommittedOf(calls'[3][3])]_vars

\* flipPage(2) changed the page backward and returned, and left in the
\* buffer, a snapshot without a committed text and without candidates
C15_Witness ==
  /\ Projected
  /\ lastCall = <<"rime_wasm_flip_page", 2>>
  /\ calls[1] = <<"change_page", session, 1>>
  /\ session \in live
  /\ AnsweredCommit = <<0, NULL>>
  /\ lastRet = RetJson(json_buf)
  /\ Member(json_buf, "committed") = JNull
  /\ Member(json_buf, "candidates") = JArray(<<>>)

----------------------------------------------------------------------------
(* C16 *)

\* C16: on a live session, clearInput makes the one engine call
\* clear_composition and setOption with an option name makes the one engine
\* call set_option; neither releases nor acquires a commit or a context,
\* and both leave the binding's state (api, session, held commit and
\* context, buffer, flag) and the engine's sessions unchanged.
C16_ClearAndSetOptionDoNotProject ==
  [][/\ (api = TheApi /\ session \in live
           /\ LastOp' = "rime_wasm_clear_input")
          => /\ calls' = << <<"clear_composition", session>> >>
             /\ bridge' = bridge
             /\ engine' = engine
     /\ (api = TheApi /\ session \in live
           /\ LastOp' = "rime_wasm_set_option" /\ lastCall'[2] # NULL)
          => /\ calls' = << <<"set_option", session, lastCall'[2],
                              IF lastCall'[3] # 0 THEN 1 ELSE 0>> >>
             /\ bridge' = bridge
             /\ engine' = engine]_vars

\* clearInput made its one call while the held commit kept its text and
\* the buffer its snapshot
C16_Witness ==
  /\ LastOp = "rime_wasm_clear_input"
  /\ session \in live
  /\ calls = << <<"clear_composition", session>> >>
  /\ CommitHeld(commit)
  /\ ContextHeld(context)
  /\ json_buf # EmptyObjectText

----------------------------------------------------------------------------
(* C17 *)

SessionScoped ==
  {"simulate_key_sequence", "select_candidate_on_current_page", "change_page",
   "clear_composition", "set_option", "get_commit", "get_context",
   "destroy_session"}

\* C17: every session-scoped engine call an exported function makes is
\* given the binding's session handle, and that handle is nonzero and
\* names a session that was live in the engine when the function was
\* called.
C17_SessionCallsUseValidHandle ==
  [][\A i \in 1..Len(calls') :
       calls'[i][1] \in SessionScoped
         => /\ calls'[i][2] = session
            /\ calls'[i][2] # 0
            /\ calls'[i][2] \in live]_vars

\* a snapshot operation made its mutation and both reads on the binding's
\* session while the engine held a second session as well
C17_Witness ==
  /\ Projected
  /\ calls[1][2] = session
  /\ calls[3][2] = session
  /\ calls[5][2] = session
  /\ session \in live
  /\ Cardinality(live) = 2

----------------------------------------------------------------------------
(* C18 *)

\* C18: once destroy has shut the engine down, the binding holds no
\* acquired and unreleased commit or context.
C18_NothingHeldAfterDestroy ==
  (LastOp = "rime_wasm_destroy" /\ "finalize" \in CallNames(calls))
    => /\ ~CommitHeld(commit)
       /\ ~ContextHeld(context)

----------------------------------------------------------------------------
(* C19 *)

\* the binding holds the engine capability and a session handle, so that
\* feedInput, pickCandidate and flipPage project
Usable == api # NoApi /\ session # 0

\* C19 as stated: engine_started is true exactly when the binding holds
\* the engine capability and a non-absent session.
C19_StartedIffUsable == engine_started <=> Usable

\* C19, amended: whenever the binding holds the capability and a session,
\* engine_started is true; engine_started is true without them only when
\* the latest initialize failed (returned -1 or -2) after an earlier one
\* had succeeded, and engine_started is false after every destroy that
\* reached the engine.
C19_StartedCoversUsable ==
  /\ Usable => engine_started
  /\ (engine_started /\ ~Usable)
       => initRet \in {RetInt(0 - 1), RetInt(0 - 2)}
  /\ (LastOp = "rime_wasm_destroy" /\ calls # <<>>) => ~engine_started

\* a second initialize found no session: the flag of the first one is
\* still set while the session operations return the empty result
C19_Witness ==
  /\ LastOp = "rime_wasm_init"
  /\ initRet = RetInt(0 - 2)
  /\ api = TheApi
  /\ session = 0
  /\ engine_started

====
